---- MODULE Spec2Model ----
(***************************************************************************)
(* WaterRipple.tsx: a React component that keeps two Float32Array height   *)
(* fields in a ref (rippleData), advances them once per animation frame    *)
(* (update), renders a refracted copy of a source image, and injects a     *)
(* disturbance on pointer movement (handleMouseMove).                      *)
(*                                                                         *)
(* Numbers.  A Float32Array element is modelled as an integer count of     *)
(* quanta of 1/Scale; a store rounds the exactly computed value to the     *)
(* nearest quantum, ties to even, as Math.fround does at a fixed exponent. *)
(* viscosity and speed are integer counts of 1/Den.  NaN is a stored       *)
(* value; Undefined is what a read outside an array returns.               *)
(***************************************************************************)
EXTENDS Integers, Sequences, FiniteSets, TLC

VARIABLES
  props,       \* the props of the latest render (lines 19-28)
  effects,     \* one closure per run of the effect (lines 32-101)
  rippleData,  \* rippleData.current: <<>> is null, else <<[buffer1, buffer2]>>
  heap,        \* the Float32Arrays that are reachable, by reference
  nextRef,     \* next fresh array reference
  rafQueue,    \* callbacks registered by requestAnimationFrame for the next frame
  frameQueue,  \* callbacks the running animation frame still has to call
  frameSteps,  \* update() calls made by the animation frame that ran last
  last,        \* what the most recent handler call read and wrote
  nFrames,     \* animation frames begun
  nInject,     \* pointer events handled
  disturbed,   \* whether a pointer event has written a non-zero strength
  mounted      \* whether the component is mounted

vars == <<props, effects, rippleData, heap, nextRef, rafQueue, frameQueue,
          frameSteps, last, nFrames, nInject, disturbed, mounted>>

\* ------------------------------------------------------------------ bounds
MaxEffects == 2
MaxFrames == 1
MaxInject == 1

\* ------------------------------------------------------------------ numbers
Scale == 4
Den == 4
NaN == 0 - 1000000
Undefined == 0 - 1000001

Max(a, b) == IF a >= b THEN a ELSE b
Min(a, b) == IF a <= b THEN a ELSE b

\* ToNumber of a value read from an array: undefined becomes NaN
ToNumber(v) == IF v = Undefined THEN NaN ELSE v

\* storing a rational num/den (den > 0) in a Float32Array element:
\* round to the nearest representable value, ties to even
Fround(num, den) ==
  LET q == num \div den
      r == num % den
  IN  IF 2 * r < den THEN q
      ELSE IF 2 * r > den THEN q + 1
      ELSE IF q % 2 = 0 THEN q ELSE q + 1

\* ~~v on a number of quanta: NaN gives 0, otherwise truncation toward zero
ToInt32(v) ==
  IF v = NaN THEN 0
  ELSE IF v >= 0 THEN v \div Scale ELSE 0 - ((0 - v) \div Scale)

\* a - b on numbers
Minus(a, b) == IF a = NaN \/ b = NaN THEN NaN ELSE a - b

\* typed-array element read and write (out of range: undefined / ignored)
Get(arr, i) == IF i \in DOMAIN arr THEN arr[i] ELSE Undefined
Put(arr, i, v) == IF i \in DOMAIN arr THEN [arr EXCEPT ![i] = v] ELSE arr

\* new Float32Array(size): zero-filled
NewFloat32Array(size) == [i \in 0 .. size - 1 |-> 0]

\* ------------------------------------------------------------------ inputs
Dims == {<<1, 3>>, <<2, 3>>}
Viscosities == {1, 2}
Speeds == {4, 12}
Strengths == {24}
RippleSizes == {1}
ImageSrcs == {"a"}
Seeds == {0}

\* ctx.getImageData(0, 0, width, height).data after drawImage: 4 bytes per pixel
ImageData(seed, size) == [k \in 0 .. 4 * size - 1 |-> (seed * 100 + 5 * k) % 256]


\* ------------------------------------------------------------------ update()
\* WaveValue with the divisor kept above 1 instead of 2
WaveValueFloorOne(l, r, u, d, n, speed, viscosity) ==
  LET s == Max(Den, speed)
      damping == Den - viscosity
      a == ToNumber(l)
      b == ToNumber(r)
      c == ToNumber(u)
      e == ToNumber(d)
      m == ToNumber(n)
  IN  IF a = NaN \/ b = NaN \/ c = NaN \/ e = NaN \/ m = NaN THEN NaN
      ELSE Fround(((a + b + c + e) * Den - m * s) * damping, s * Den)

\* lines 57-68: the value assigned to buffer2[i]; l, r, u, d are the four reads
\* of buffer1 and n the read of buffer2[i]
WaveValue(l, r, u, d, n, speed, viscosity) ==
  LET s == Max(2 * Den, speed)
      damping == Den - viscosity
      a == ToNumber(l)
      b == ToNumber(r)
      c == ToNumber(u)
      e == ToNumber(d)
      m == ToNumber(n)
  IN  IF a = NaN \/ b = NaN \/ c = NaN \/ e = NaN \/ m = NaN THEN NaN
      ELSE Fround(((a + b + c + e) * Den - m * s) * damping, s * Den)

\* lines 61-69: the loop, in place on the heap, from index i on (h is hp, named
\* once so that each pass evaluates the heap it starts from a single time)
RECURSIVE SolveLoop(_, _, _, _, _)
SolveLoop(hp, buffer1, buffer2, i, c) ==
  IF i < c.width * c.height - c.width
  THEN CHOOSE done \in
         {SolveLoop([h EXCEPT ![buffer2] =
                       Put(h[buffer2], i,
                           WaveValue(Get(h[buffer1], i - 1), Get(h[buffer1], i + 1),
                                     Get(h[buffer1], i - c.width),
                                     Get(h[buffer1], i + c.width),
                                     Get(h[buffer2], i), c.speed, c.viscosity))],
                    buffer1, buffer2, i + 1, c) : h \in {hp}} : TRUE
  ELSE hp

\* lines 78-79: the two offsets of pixel i, read from array buf
XOffset(buf, i) == ToInt32(Minus(ToNumber(Get(buf, i - 1)), ToNumber(Get(buf, i + 1))))
YOffset(buf, i, width) ==
  ToInt32(Minus(ToNumber(Get(buf, i - width)), ToNumber(Get(buf, i + width))))

\* lines 78-79: the indices of buffer1 that the pass for pixel i reads
RefractReads(i, width) == {i - 1, i + 1, i - width, i + width}

\* FinalIdx with the index wrapped into the image instead of clamped
FinalIdxWrapped(i, xOffset, yOffset, width, size) ==
  (i + xOffset + yOffset * width) % size

\* lines 82-83: the source pixel read for a displaced pixel
FinalIdx(i, xOffset, yOffset, width, size) ==
  Max(0, Min(size - 1, i + xOffset + yOffset * width))

\* OutputByte with the alpha byte copied from the source like the other three
OutputByteSourceAlpha(k, src, imgData) == Get(imgData, src * 4 + (k % 4))

\* lines 85-88 and 90-93: byte k of output.data, whose pixel is copied from pixel src
OutputByte(k, src, imgData) ==
  IF k % 4 = 3 THEN 255 ELSE Get(imgData, src * 4 + (k % 4))

\* lines 78-83: the offsets of pixel i and the source pixel it is copied from
Pixel(i, xOffset, yOffset, c) ==
  [xOffset |-> xOffset, yOffset |-> yOffset,
   src |-> IF xOffset # 0 \/ yOffset # 0
           THEN FinalIdx(i, xOffset, yOffset, c.width, c.width * c.height)
           ELSE i]

\* lines 76-95: the refraction loop over all pixels; buf is the array the loop reads
\* as buffer1. Every pass writes only the four bytes of its own pixel and reads
\* only buf and imgData, so the passes are given as functions of the pixel.
\* data is output.data, src[i] the source pixel read for pixel i
Refract(buf, c) ==
  CHOOSE out \in
    {[data |-> [k \in 0 .. 4 * c.width * c.height - 1 |->
                  OutputByte(k, px[k \div 4].src, c.imgData)],
      src |-> [i \in DOMAIN px |-> px[i].src],
      xOffset |-> [i \in DOMAIN px |-> px[i].xOffset],
      yOffset |-> [i \in DOMAIN px |-> px[i].yOffset]]
       : px \in {[i \in 0 .. c.width * c.height - 1 |->
                   Pixel(i, XOffset(buf, i), YOffset(buf, i, c.width), c)]}} : TRUE

\* the array the refraction loop reads: the local buffer1 destructured at line 54
RenderSource(buffer1, buffer2) == buffer1

\* Swap with the second assignment reading the field the first one overwrote
SwapAliased(buffer1, buffer2) == [buffer1 |-> buffer2, buffer2 |-> buffer2]

\* lines 72-73: the roles after the swap
Swap(buffer1, buffer2) == [buffer1 |-> buffer2, buffer2 |-> buffer1]

\* lines 52-97: one call of update() of closure c (effect run e), with
\* rippleData.current = rd (not null) and the arrays hp; solved is the heap after
\* the loop of lines 61-69
Update(c, e, rd, hp) ==
  CHOOSE u \in
    {[rippleData |-> <<Swap(rd[1].buffer1, rd[1].buffer2)>>,
      heap |-> solved,
      last |-> [op |-> "update", e |-> e, c |-> c,
                buffer1 |-> rd[1].buffer1, buffer2 |-> rd[1].buffer2,
                C |-> hp[rd[1].buffer1], N |-> hp[rd[1].buffer2],
                C1 |-> solved[rd[1].buffer1], N1 |-> solved[rd[1].buffer2],
                read |-> RenderSource(rd[1].buffer1, rd[1].buffer2),
                out |-> Refract(solved[RenderSource(rd[1].buffer1, rd[1].buffer2)], c)]]
       : solved \in {SolveLoop(hp, rd[1].buffer1, rd[1].buffer2, c.width, c)}} : TRUE

\* ------------------------------------------------------------------ handleMouseMove
\* lines 120-126: the two nested loops, flattened: step n visits
\* j = y - rippleSize + n \div (2 * rippleSize), k = x - rippleSize + n % (2 * rippleSize)
RECURSIVE DisturbLoop(_, _, _, _, _)
DisturbLoop(buf, n, x, y, p) ==
  IF n < (2 * p.rippleSize) * (2 * p.rippleSize)
  THEN LET j == y - p.rippleSize + (n \div (2 * p.rippleSize))
           k == x - p.rippleSize + (n % (2 * p.rippleSize))
       IN  DisturbLoop(IF j >= 0 /\ j < p.height /\ k >= 0 /\ k < p.width
                       THEN Put(buf, j * p.width + k, p.strength)
                       ELSE buf,
                       n + 1, x, y, p)
  ELSE buf

\* pointer positions (x, y) after the scaling of lines 111-115
Pointers == {<<-1, 0>>, <<1, 1>>, <<1, 2>>, <<2, 2>>}

\* lines 103-127: a pointer event on the mounted canvas; line 104 returns while
\* rippleData.current is null
handleMouseMove(x, y) ==
  /\ mounted
  /\ frameQueue = <<>>
  /\ nInject < MaxInject
  /\ IF rippleData = <<>>
     THEN /\ last' = [op |-> "ignored"]
          /\ UNCHANGED <<heap, disturbed>>
     ELSE LET buffer1 == rippleData[1].buffer1
              buffer2 == rippleData[1].buffer2
              written == DisturbLoop(heap[buffer1], 0, x, y, props)
          IN  /\ heap' = [heap EXCEPT ![buffer1] = written]
              /\ last' = [op |-> "inject", x |-> x, y |-> y, p |-> props,
                          buffer1 |-> buffer1, buffer2 |-> buffer2,
                          C |-> heap[buffer1], N |-> heap[buffer2],
                          C1 |-> written, N1 |-> heap[buffer2]]
              /\ disturbed' = (disturbed \/ props.strength # 0)
  /\ nInject' = nInject + 1
  /\ UNCHANGED <<props, effects, rippleData, nextRef, rafQueue, frameQueue,
                 frameSteps, nFrames, mounted>>

\* ------------------------------------------------------------------ the effect
\* lines 32-40: a run of the effect creates an Image that starts loading; the
\* closures it will install capture the props of that render
NewEffect(p) ==
  [imageSrc |-> p.imageSrc, width |-> p.width, height |-> p.height,
   viscosity |-> p.viscosity, speed |-> p.speed,
   status |-> "loading", imgData |-> <<>>]

\* line 101: the dependency list
DepsChanged(p, q) ==
  \/ p.imageSrc # q.imageSrc
  \/ p.width # q.width
  \/ p.height # q.height
  \/ p.viscosity # q.viscosity
  \/ p.speed # q.speed

\* the injection that no simulation step has read yet, if there is one
Pending(l) ==
  IF l.op = "inject" THEN <<l>>
  ELSE IF l.op = "render" THEN l.pending
  ELSE <<>>

\* a re-render with props q; the effect runs again when a dependency changed,
\* and nothing stops the earlier runs (the effect returns no cleanup)
Rerender(q) ==
  /\ mounted
  /\ frameQueue = <<>>
  /\ q # props
  /\ props' = q
  /\ IF DepsChanged(props, q)
     THEN /\ Len(effects) < MaxEffects
          /\ effects' = Append(effects, NewEffect(q))
     ELSE UNCHANGED effects
  /\ last' = [op |-> "render", pending |-> Pending(last)]
  /\ UNCHANGED <<rippleData, heap, nextRef, rafQueue, frameQueue, frameSteps,
                 nFrames, nInject, disturbed, mounted>>

\* lines 42-99: img.onload of effect run e; seed chooses the bytes getImageData
\* returns. new Float32Array(size) throws a RangeError when size < 0 (line 45,
\* before rippleData.current is assigned); getImageData throws an IndexSizeError
\* when width or height is 0 (line 50, after the assignment of lines 44-47).
\* Either exception ends the handler: update is never created nor called
ImgOnload(e, seed) ==
  /\ frameQueue = <<>>
  /\ effects[e].status = "loading"
  /\ LET size == effects[e].width * effects[e].height
         rd == <<[buffer1 |-> nextRef, buffer2 |-> nextRef + 1]>>
         hp == [b \in {nextRef, nextRef + 1} |-> NewFloat32Array(size)]
         c == [effects[e] EXCEPT !.status = "running",
                                 !.imgData = ImageData(seed, size)]
     IN  IF size < 0
         THEN /\ effects' = [effects EXCEPT ![e].status = "threw"]
              /\ last' = [op |-> "threw", e |-> e, installed |-> FALSE]
              /\ UNCHANGED <<rippleData, heap, nextRef, rafQueue>>
         ELSE IF size = 0
         THEN /\ effects' = [effects EXCEPT ![e].status = "threw"]
              /\ rippleData' = rd
              /\ heap' = hp
              /\ last' = [op |-> "threw", e |-> e, installed |-> TRUE]
              /\ nextRef' = nextRef + 2
              /\ UNCHANGED rafQueue
         ELSE \E u \in {Update(c, e, rd, hp)} :
                /\ effects' = [effects EXCEPT ![e] = c]
                /\ rippleData' = u.rippleData
                /\ heap' = u.heap
                /\ last' = u.last
                /\ nextRef' = nextRef + 2
                /\ rafQueue' = Append(rafQueue, e)
  /\ UNCHANGED <<props, frameQueue, frameSteps, nFrames, nInject, disturbed, mounted>>

\* lines 38-42: the image of effect run e fails to load; no onerror handler is
\* set, so onload is never called for it and nothing else happens
ImgOnerror(e) ==
  /\ frameQueue = <<>>
  /\ effects[e].status = "loading"
  /\ effects' = [effects EXCEPT ![e].status = "failed"]
  /\ last' = [op |-> "error", e |-> e]
  /\ UNCHANGED <<props, rippleData, heap, nextRef, rafQueue, frameQueue, frameSteps,
                 nFrames, nInject, disturbed, mounted>>

\* lines 32-101: the component is unmounted; the effect returned no cleanup, so
\* React has nothing to run: images keep loading and registered callbacks stay
\* registered
Unmount ==
  /\ mounted
  /\ frameQueue = <<>>
  /\ mounted' = FALSE
  /\ last' = [op |-> "unmount"]
  /\ UNCHANGED <<props, effects, rippleData, heap, nextRef, rafQueue, frameQueue,
                 frameSteps, nFrames, nInject, disturbed>>

\* the browser starts an animation frame: it will call the callbacks registered so far
BeginFrame ==
  /\ frameQueue = <<>>
  /\ rafQueue # <<>>
  /\ frameQueue' = rafQueue
  /\ rafQueue' = <<>>
  /\ frameSteps' = 0
  /\ nFrames' = Min(nFrames + 1, MaxFrames)
  /\ UNCHANGED <<props, effects, rippleData, heap, nextRef, last, nInject, disturbed,
                 mounted>>

\* lines 52-98: the animation frame calls update of effect run e, which registers itself again
update(e) ==
  /\ frameQueue # <<>>
  /\ e = Head(frameQueue)
  /\ rippleData # <<>>
  /\ \E u \in {Update(effects[e], e, rippleData, heap)} :
       /\ rippleData' = u.rippleData
       /\ heap' = u.heap
       /\ last' = u.last
  /\ frameQueue' = Tail(frameQueue)
  /\ rafQueue' = Append(rafQueue, e)
  /\ frameSteps' = frameSteps + 1
  /\ UNCHANGED <<props, effects, nextRef, nFrames, nInject, disturbed, mounted>>

\* a step in which the animation frame calls the callback at the head of its list
IsUpdateStep == frameQueue # <<>> /\ frameQueue' = Tail(frameQueue)

\* ------------------------------------------------------------------ the program
AllProps ==
  [imageSrc : ImageSrcs, width : {d[1] : d \in Dims}, height : {d[2] : d \in Dims},
   rippleSize : RippleSizes, strength : Strengths,
   viscosity : Viscosities, speed : Speeds]

Init ==
  /\ props \in AllProps
  /\ effects = <<NewEffect(props)>>
  /\ rippleData = <<>>
  /\ heap = <<>>
  /\ nextRef = 1
  /\ rafQueue = <<>>
  /\ frameQueue = <<>>
  /\ frameSteps = 0
  /\ last = [op |-> "none"]
  /\ nFrames = 0
  /\ nInject = 0
  /\ disturbed = FALSE
  /\ mounted = TRUE

\* a re-render changes one prop
OneChange(p) ==
  {q \in AllProps : Cardinality({f \in DOMAIN p : p[f] # q[f]}) = 1}

Next ==
  \/ \E q \in OneChange(props) : Rerender(q)
  \/ \E e \in 1 .. Len(effects), seed \in Seeds : ImgOnload(e, seed)
  \/ nFrames < MaxFrames /\ BeginFrame
  \/ \E e \in 1 .. Len(effects) : update(e)
  \/ \E xy \in Pointers : handleMouseMove(xy[1], xy[2])

Spec == Init /\ [][Next]_vars

\* ------------------------------------------------------------------ claims
Running == {e \in 1 .. Len(effects) : effects[e].status = "running"}
Size(c) == c.width * c.height
Interior(c) == {i \in 0 .. Size(c) - 1 : c.width <= i /\ i < Size(c) - c.width}

\* the value ((l + r + u + d) / max(2, speed) - n) * (1 - viscosity), as stored
C1_Value(l, r, u, d, n, speed, viscosity) ==
  IF l = NaN \/ r = NaN \/ u = NaN \/ d = NaN \/ n = NaN THEN NaN
  ELSE LET s == IF speed < 2 * Den THEN 2 * Den ELSE speed
       IN  Fround(((l + r + u + d) * Den - n * s) * (Den - viscosity), s * Den)

\* C1: after a simulation step every interior index i of the scratch buffer holds
\* ((C[i-1] + C[i+1] + C[i-width] + C[i+width]) / max(2, speed) - N[i]) * (1 - viscosity),
\* C and N being the two buffers as they were before the step
C1_StepFormula ==
  last.op = "update" =>
    \A i \in Interior(last.c) :
      Get(last.N1, i) =
        C1_Value(ToNumber(Get(last.C, i - 1)), ToNumber(Get(last.C, i + 1)),
                 ToNumber(Get(last.C, i - last.c.width)),
                 ToNumber(Get(last.C, i + last.c.width)),
                 ToNumber(Get(last.N, i)), last.c.speed, last.c.viscosity)

\* cell (x, y) lies in the square of an injection at (cx, cy) with radius r, clipped to the field
InSquare(x, y, cx, cy, r, w, h) ==
  /\ cx - r <= x /\ x < cx + r /\ cy - r <= y /\ y < cy + r
  /\ 0 <= x /\ x < w /\ 0 <= y /\ y < h

\* C2: an injection sets the current buffer to the strength at exactly the cells of
\* the clipped square and changes no other cell of either buffer
C2_InjectSquare ==
  last.op = "inject" =>
    LET p == last.p
        Sq == {<<x, y>> \in (0 .. p.width - 1) \X (0 .. p.height - 1) :
                 InSquare(x, y, last.x, last.y, p.rippleSize, p.width, p.height)}
    IN  /\ \A c \in Sq : Get(last.C1, c[2] * p.width + c[1]) = p.strength
        /\ \A i \in DOMAIN last.C1 :
             (\A c \in Sq : i # c[2] * p.width + c[1]) => last.C1[i] = last.C[i]
        /\ last.N1 = last.N

\* C4: at most one frame loop is running, and an animation frame makes one update call
C4_OneLoop == Cardinality(Running) <= 1 /\ frameSteps <= 1

\* C5: the offsets of a render are those of the buffer that is current after the swap
C5_RefractsCurrent ==
  last.op = "update" =>
    \A i \in 0 .. Size(last.c) - 1 :
      /\ last.out.xOffset[i] = XOffset(heap[rippleData[1].buffer1], i)
      /\ last.out.yOffset[i] = YOffset(heap[rippleData[1].buffer1], i, last.c.width)

\* C8: while no pointer event has written a non-zero strength, every cell of both buffers is 0
C8_ZeroStaysZero ==
  (rippleData # <<>> /\ ~disturbed) =>
    \A b \in {rippleData[1].buffer1, rippleData[1].buffer2} :
      \A i \in DOMAIN heap[b] : heap[b][i] = 0

\* C10: a simulation step uses the viscosity and speed of the latest props
C10_NewValues ==
  last.op = "update" =>
    last.c.viscosity = props.viscosity /\ last.c.speed = props.speed

\* the two arrays are distinct, live, equally long, and as long as width * height
\* of an effect run whose image has loaded
C3_Buffers ==
  rippleData # <<>> =>
    LET b1 == rippleData[1].buffer1
        b2 == rippleData[1].buffer2
    IN  /\ b1 # b2
        /\ {b1, b2} \subseteq DOMAIN heap
        /\ DOMAIN heap[b1] = DOMAIN heap[b2]
        /\ \E e \in Running : DOMAIN heap[b1] = 0 .. Size(effects[e]) - 1

\* right after a step the array it wrote is the current one and the array it read
\* is the scratch one; swapping once more gives back the roles it started from
C3_AfterStep ==
  last.op = "update" =>
    /\ rippleData[1].buffer1 = last.buffer2
    /\ rippleData[1].buffer2 = last.buffer1
    /\ heap[rippleData[1].buffer1] = last.N1
    /\ heap[rippleData[1].buffer2] = last.C
    /\ Swap(rippleData[1].buffer1, rippleData[1].buffer2)
         = [buffer1 |-> last.buffer1, buffer2 |-> last.buffer2]

\* a step reads the array that is current, exchanges the two references, and
\* creates and copies no array
C3_Step ==
  IsUpdateStep =>
    /\ last'.buffer1 = rippleData[1].buffer1
    /\ last'.buffer2 = rippleData[1].buffer2
    /\ rippleData'[1].buffer1 = rippleData[1].buffer2
    /\ rippleData'[1].buffer2 = rippleData[1].buffer1
    /\ DOMAIN heap' = DOMAIN heap
    /\ heap'[rippleData[1].buffer1] = heap[rippleData[1].buffer1]

Reload(i) == i + last.out.xOffset[i] + last.out.yOffset[i] * last.c.width

Displaced(i) == last.out.xOffset[i] # 0 \/ last.out.yOffset[i] # 0

\* C6: a displaced pixel i is copied from source pixel
\* min(width*height - 1, max(0, i + xOffset + yOffset*width)), which is in the image
C6_ClampedSample ==
  last.op = "update" =>
    \A i \in 0 .. Size(last.c) - 1 :
      Displaced(i) =>
        LET want == Min(Size(last.c) - 1, Max(0, Reload(i)))
        IN  /\ want \in 0 .. Size(last.c) - 1
            /\ last.out.src[i] = want
            /\ \A ch \in 0 .. 2 :
                 last.out.data[i * 4 + ch] = last.c.imgData[want * 4 + ch]

C6_Witness ==
  /\ last.op = "update"
  /\ \E i \in 0 .. Size(last.c) - 1 : Displaced(i) /\ Reload(i) > Size(last.c) - 1
  /\ \E i \in 0 .. Size(last.c) - 1 : Displaced(i) /\ Reload(i) < 0

\* C7: every output pixel has alpha 255, and a pixel with both offsets 0 has the
\* red, green and blue of the same source pixel
C7_OpaqueNoop ==
  last.op = "update" =>
    \A i \in 0 .. Size(last.c) - 1 :
      /\ last.out.data[i * 4 + 3] = 255
      /\ ~Displaced(i) =>
           \A ch \in 0 .. 2 : last.out.data[i * 4 + ch] = last.c.imgData[i * 4 + ch]

C7_Witness ==
  /\ last.op = "update"
  /\ \E i \in 0 .. Size(last.c) - 1 : ~Displaced(i) /\ last.c.imgData[i * 4 + 3] # 255
  /\ \E i \in 0 .. Size(last.c) - 1 :
       Displaced(i) /\ last.c.imgData[last.out.src[i] * 4 + 3] # 255

\* C16: a simulation step leaves every element of the current buffer, and the
\* first width and the last width elements of the scratch buffer, as they were
C16_BordersKept ==
  last.op = "update" =>
    /\ last.C1 = last.C
    /\ \A i \in DOMAIN last.N :
         (i < last.c.width \/ i >= Cardinality(DOMAIN last.N) - last.c.width) =>
           last.N1[i] = last.N[i]

\* what the loop bounds give: an element of the scratch buffer that a step
\* changed has an index i with width <= i < width * height - width
C16_WritesInterior ==
  last.op = "update" =>
    /\ last.C1 = last.C
    /\ \A i \in DOMAIN last.N : last.N1[i] # last.N[i] => i \in Interior(last.c)

\* the step installs two fresh arrays in place of the buffers there were
C12_Replaced ==
  /\ rippleData # <<>>
  /\ rippleData' # <<>>
  /\ rippleData'[1].buffer1 \notin {rippleData[1].buffer1, rippleData[1].buffer2}

\* C12: once allocated, the buffers are replaced by fresh zeroed ones only when
\* width or height changed (the new buffers have another width * height) or the
\* component is unmounted
C12_AllocatedOnce ==
  [][C12_Replaced =>
       \/ DOMAIN heap'[rippleData'[1].buffer1] # DOMAIN heap[rippleData[1].buffer1]
       \/ ~mounted']_vars

\* ------------------------------------------------------------------ life cycle
\* the component over its whole life: re-renders that may change the image
\* source, images that fail to load, and the unmount
LifeImageSrcs == {"a", "b"}
LifeDims == {<<1, 3>>}
LifeViscosities == {1, 2}
LifeSpeeds == {4}
LifeProps ==
  [imageSrc : LifeImageSrcs, width : {d[1] : d \in LifeDims},
   height : {d[2] : d \in LifeDims}, rippleSize : RippleSizes,
   strength : Strengths, viscosity : LifeViscosities, speed : LifeSpeeds]

InitLife ==
  /\ props \in LifeProps
  /\ effects = <<NewEffect(props)>>
  /\ rippleData = <<>>
  /\ heap = <<>>
  /\ nextRef = 1
  /\ rafQueue = <<>>
  /\ frameQueue = <<>>
  /\ frameSteps = 0
  /\ last = [op |-> "none"]
  /\ nFrames = 0
  /\ nInject = 0
  /\ disturbed = FALSE
  /\ mounted = TRUE

\* a re-render changes one prop
LifeChange(p) ==
  {q \in LifeProps : Cardinality({f \in DOMAIN p : p[f] # q[f]}) = 1}

NextLife ==
  \/ \E q \in LifeChange(props) : Rerender(q)
  \/ \E e \in 1 .. Len(effects), seed \in Seeds : ImgOnload(e, seed)
  \/ \E e \in 1 .. Len(effects) : ImgOnerror(e)
  \/ nFrames < MaxFrames /\ BeginFrame
  \/ \E e \in 1 .. Len(effects) : update(e)
  \/ \E xy \in Pointers : handleMouseMove(xy[1], xy[2])
  \/ Unmount

SpecLife == InitLife /\ [][NextLife]_vars

\* the effect run of the latest render: the one that loads the current source image
Current == Len(effects)

\* C11: a simulation step runs, and an injection writes a buffer, only when the
\* source image of the latest render has finished loading; in particular none
\* does while that image is still loading or after it failed to load
C11_Gated ==
  last.op \in {"update", "inject"} => effects[Current].status = "running"

\* the gate the code does have: a step is made by a run whose own image has
\* loaded, and an injection writes only once some run's image has loaded
C11_GatedPerRun ==
  /\ last.op = "update" =>
       effects[last.e].status = "running" /\ effects[last.e].imgData # <<>>
  /\ last.op = "inject" => \E e \in 1 .. Len(effects) : effects[e].status \in {"running", "threw"}
  /\ (\A e \in 1 .. Len(effects) : effects[e].status \in {"loading", "failed"}) =>
       rippleData = <<>> /\ heap = <<>> /\ rafQueue = <<>>

\* a simulation step is made: by a frame's callback or by the call of line 99
StepTaken == IsUpdateStep \/ (nextRef' # nextRef /\ last'.op = "update")

\* C18: once the component is unmounted no simulation step or render is made
C18_StopsAfterUnmount == [][~mounted => ~StepTaken]_vars

\* ------------------------------------------------------------------ configuration
\* the component mounted once with props of any value, valid or not: a width or
\* height that is 0 or negative, a viscosity outside [0,1), a speed below 2
ConfigDims == {<<0, 3>>, <<2, 0>>, <<0 - 1, 3>>, <<1, 3>>, <<2, 3>>}
ConfigViscosities == {0 - 1, 0, 1, 4, 5}
ConfigSpeeds == {0 - 4, 0, 4, 8, 12}
ConfigProps ==
  {p \in [imageSrc : ImageSrcs, width : {d[1] : d \in ConfigDims},
          height : {d[2] : d \in ConfigDims}, rippleSize : RippleSizes,
          strength : Strengths, viscosity : ConfigViscosities, speed : ConfigSpeeds] :
     <<p.width, p.height>> \in ConfigDims}

InitConfig ==
  /\ props \in ConfigProps
  /\ effects = <<NewEffect(props)>>
  /\ rippleData = <<>>
  /\ heap = <<>>
  /\ nextRef = 1
  /\ rafQueue = <<>>
  /\ frameQueue = <<>>
  /\ frameSteps = 0
  /\ last = [op |-> "none"]
  /\ nFrames = 0
  /\ nInject = 0
  /\ disturbed = FALSE
  /\ mounted = TRUE

NextConfig ==
  \/ \E e \in 1 .. Len(effects), seed \in Seeds : ImgOnload(e, seed)
  \/ nFrames < MaxFrames /\ BeginFrame
  \/ \E e \in 1 .. Len(effects) : update(e)
  \/ \E xy \in Pointers : handleMouseMove(xy[1], xy[2])

SpecConfig == InitConfig /\ [][NextConfig]_vars

\* C13: a run whose width * height is 0 or negative installs no buffers and
\* never makes a simulation step or a render
C13_InvalidRejected ==
  \A e \in 1 .. Len(effects) :
    Size(effects[e]) <= 0 =>
      /\ effects[e].status # "running"
      /\ (last.op = "threw" /\ last.e = e) => ~last.installed
      /\ rippleData = <<>>

\* C14: no simulation step is computed with a damping factor 1 - viscosity that
\* is <= 0 or > 1
C14_ViscosityChecked ==
  last.op = "update" =>
    0 < Den - last.c.viscosity /\ Den - last.c.viscosity <= Den

\* the scratch buffer a step leaves when it starts from current buffer C and
\* scratch buffer N with the props of closure c
StepFrom(C, N, c) ==
  SolveLoop([b \in {1, 2} |-> IF b = 1 THEN C ELSE N], 1, 2, c.width, c)[2]

\* C15: a step with speed < 2 leaves exactly the scratch buffer that the step
\* with speed = 2 leaves from the same two buffers
C15_SpeedFloor ==
  (last.op = "update" /\ last.c.speed < 2 * Den) =>
    /\ last.N1 = StepFrom(last.C, last.N, last.c)
    /\ last.N1 = StepFrom(last.C, last.N, [last.c EXCEPT !.speed = 2 * Den])

\* a step with speed <= 0 has computed a non-zero amplitude
C15_Witness ==
  /\ last.op = "update"
  /\ last.c.speed <= 0
  /\ \E i \in DOMAIN last.N1 : last.N1[i] # 0 /\ last.N1[i] # NaN

\* C17: the simulation step that follows an injection reads, as its current
\* buffer, the array the injection wrote, and every cell the injection set to
\* the strength still holds it, whatever re-renders came in between
C17_InjectionRead ==
  [][(Pending(last) # <<>> /\ StepTaken) =>
       LET inj == Pending(last)[1]
       IN  \A i \in DOMAIN inj.C1 :
             inj.C1[i] = inj.p.strength =>
               /\ last'.buffer1 = inj.buffer1
               /\ Get(last'.C, i) = inj.p.strength]_vars

\* C19: every index at which the refraction pass reads the height field, for
\* every pixel i of the width * height pixels, is within [0, width * height),
\* so that every such read returns an element of the buffer
C19_ReadsInRange ==
  last.op = "update" =>
    \A i \in 0 .. Size(last.c) - 1 :
      \A j \in RefractReads(i, last.c.width) :
        j \in 0 .. Size(last.c) - 1 /\ Get(heap[last.read], j) # Undefined

\* C20: a simulation step with its render, and an injection, index buffers
\* whose length is the width * height they index with
C20_DimsMatch ==
  /\ last.op = "update" =>
       /\ DOMAIN last.C = 0 .. Size(last.c) - 1
       /\ DOMAIN last.N = 0 .. Size(last.c) - 1
  /\ last.op = "inject" => DOMAIN last.C = 0 .. Size(last.p) - 1

\* ------------------------------------------------------------------ decay
\* the component with props that never change, viscosity in (0,1) and speed >= 2,
\* on fields that have interior rows a disturbance square fits in
DecayDims == {<<1, 4>>, <<2, 4>>}
DecayViscosities == {1, 2, 3}
DecaySpeeds == {8, 12}
DecayProps ==
  {p \in [imageSrc : ImageSrcs, width : {d[1] : d \in DecayDims},
          height : {d[2] : d \in DecayDims}, rippleSize : RippleSizes,
          strength : Strengths, viscosity : DecayViscosities, speed : DecaySpeeds] :
     /\ 0 < p.viscosity /\ p.viscosity < Den
     /\ p.speed >= 2 * Den}

InitDecay ==
  /\ props \in DecayProps
  /\ effects = <<NewEffect(props)>>
  /\ rippleData = <<>>
  /\ heap = <<>>
  /\ nextRef = 1
  /\ rafQueue = <<>>
  /\ frameQueue = <<>>
  /\ frameSteps = 0
  /\ last = [op |-> "none"]
  /\ nFrames = 0
  /\ nInject = 0
  /\ disturbed = FALSE
  /\ mounted = TRUE

NextDecay ==
  \/ \E e \in 1 .. Len(effects), seed \in Seeds : ImgOnload(e, seed)
  \/ BeginFrame
  \/ \E e \in 1 .. Len(effects) : update(e)
  \/ \E xy \in Pointers : handleMouseMove(xy[1], xy[2])

\* requestAnimationFrame callbacks are always called, and each update registers the next
SpecDecay ==
  /\ InitDecay
  /\ [][NextDecay]_vars
  /\ WF_vars(BeginFrame)
  /\ WF_vars(\E e \in 1 .. Len(effects) : update(e))

\* a cell of the first or the last row of either buffer is not 0
BorderDisturbed ==
  /\ rippleData # <<>>
  /\ \E b \in {rippleData[1].buffer1, rippleData[1].buffer2} :
       \E i \in DOMAIN heap[b] :
         (i < props.width \/ i >= props.width * props.height - props.width)
           /\ heap[b][i] # 0

\* every cell of both buffers has a magnitude below 1.0
Calm ==
  rippleData # <<>> =>
    \A b \in {rippleData[1].buffer1, rippleData[1].buffer2} :
      \A i \in DOMAIN heap[b] : 0 - Scale < heap[b][i] /\ heap[b][i] < Scale

\* C9: with viscosity in (0,1), speed >= 2 and no further injection, wherever the
\* injections landed, eventually every cell of both buffers stays within less
\* than 1.0 of zero (what "decays toward zero" asks at least; the claim's
\* reading for stored values, eventually exactly 0, asks more)
C9_Decays == <>[]Calm

\* the decay the step does produce: unless an injection put a non-zero strength
\* on the first or last row, eventually every cell stays below 1.0 in magnitude
C9_InteriorDecays == <>[](BorderDisturbed \/ Calm)

\* a step has run after an injection and a cell of the first or last row of the
\* buffer the injection wrote still holds the injected strength
C9_Witness ==
  /\ disturbed
  /\ last.op = "update"
  /\ \E i \in DOMAIN last.C :
       /\ i < last.c.width \/ i >= Size(last.c) - last.c.width
       /\ last.C[i] = props.strength
       /\ heap[rippleData[1].buffer2][i] = props.strength

====
